---------------------------- MODULE Spec2Model ----------------------------
(***************************************************************************)
(* A model of auto-assign-defaults (src/cmd/main.go): one invocation reads *)
(* three environment variables, fetches a pull request and runs four rules *)
(* against it: handleTitleBasedLabel, handleDayLabel, assignDefaultAssignee *)
(* and assignDefaultReviewers.  The hosting API is the environment: every  *)
(* call may succeed or fail, and a successful write changes the pull       *)
(* request kept by the host (gh), which a later invocation fetches again.  *)
(*                                                                         *)
(* Strings are TLA+ strings; a character is a string of length one.        *)
(***************************************************************************)
EXTENDS Integers, Sequences, FiniteSets, TLC

VARIABLES
    env,      \* the process environment: [token, repo, prNumber]
    gh,       \* the host's side: the pull request, its files, the contributors
    pr,       \* the *github.PullRequest fetched by main (NilPR before)
    pc,       \* where main is: start, title, day, assignee, reviewers, done, fatal
    calls,    \* the API calls issued by this invocation, in order
    entered,  \* the rules entered by this invocation, in order
    resolved, \* handleTitleBasedLabel's local `label` ("" while unresolved)
    exit,     \* the exit status: -1 while running, 0, or 1 after log.Fatal
    run,      \* the number of this invocation
    prev      \* the previous invocation: [calls, exit]

vars == <<env, gh, pr, pc, calls, entered, resolved, exit, run, prev>>

-----------------------------------------------------------------------------
(* Bounds of the model *)

\* The triggering event fires at most MaxRuns times.
MaxRuns == 2

\* The repository has at most MaxContributors contributors.
MaxContributors == 12

\* The changed files come in at most MaxFilePages pages.
MaxFilePages == 2

-----------------------------------------------------------------------------
(* Strings: package strings, strconv and regexp, as the program uses them *)

Min(S) == CHOOSE x \in S : \A y \in S : x <= y
Max(S) == CHOOSE x \in S : \A y \in S : x >= y

Char(s, i) == SubSeq(s, i, i)

\* strings.Index(s, c) for a one-character c, counted from 1; 0 when absent.
IndexOf(s, c) ==
    LET at == {i \in 1..Len(s) : Char(s, i) = c}
    IN  IF at = {} THEN 0 ELSE Min(at)

\* strings.Contains(s, c) for a one-character c.
Contains(s, c) == IndexOf(s, c) # 0

\* strings.HasPrefix(s, p).
HasPrefix(s, p) == Len(s) >= Len(p) /\ SubSeq(s, 1, Len(p)) = p

UpperLetters == "ABCDEFGHIJKLMNOPQRSTUVWXYZ"
LowerLetters == "abcdefghijklmnopqrstuvwxyz"

LowerChar(c) ==
    LET i == IndexOf(UpperLetters, c)
    IN  IF i = 0 THEN c ELSE Char(LowerLetters, i)

\* strings.ToLower(s), on ASCII.
RECURSIVE ToLower(_)
ToLower(s) ==
    IF s = "" THEN ""
    ELSE LowerChar(Char(s, 1)) \o ToLower(SubSeq(s, 2, Len(s)))

IsSpace(c) == c \in {" ", "\t", "\n", "\r"}

\* strings.TrimSpace(s): leading and trailing white space removed.
TrimSpace(s) ==
    LET keep == {i \in 1..Len(s) : ~IsSpace(Char(s, i))}
    IN  IF keep = {} THEN "" ELSE SubSeq(s, Min(keep), Max(keep))

\* strings.SplitN(s, sep, 2)[0]: the text before the first sep, or all of s.
SplitN2First(s, sep) ==
    LET i == IndexOf(s, sep)
    IN  IF i = 0 THEN s ELSE SubSeq(s, 1, i - 1)

\* strings.Split(s, sep) for a one-character sep.
RECURSIVE Split(_, _)
Split(s, sep) ==
    LET i == IndexOf(s, sep)
    IN  IF i = 0 THEN <<s>>
        ELSE <<SubSeq(s, 1, i - 1)>> \o Split(SubSeq(s, i + 1, Len(s)), sep)

IsBracket(c) == c \in {"(", "[", "{", "<"}

\* regexp.MustCompile(`[\(\[\{<].*$`).ReplaceAllString(s, ""): `.` matches no
\* line feed and `$` only the end of the text, so the leftmost match starts
\* at the first bracket that no line feed follows, and runs to the end.
ReplaceBrackets(s) ==
    LET starts == {i \in 1..Len(s) :
                     /\ IsBracket(Char(s, i))
                     /\ \A j \in (i + 1)..Len(s) : Char(s, j) # "\n"}
    IN  IF starts = {} THEN s ELSE SubSeq(s, 1, Min(starts) - 1)

IsDigit(c) == c # "" /\ Contains("0123456789", c)

\* strconv.Atoi(s) returns no error: an optional sign, then decimal digits.
AtoiOk(s) ==
    LET digits == IF Len(s) > 0 /\ Char(s, 1) \in {"+", "-"}
                  THEN SubSeq(s, 2, Len(s)) ELSE s
    IN  /\ digits # ""
        /\ \A i \in 1..Len(digits) : IsDigit(Char(digits, i))

-----------------------------------------------------------------------------
(* handleTitleBasedLabel's table and prefix *)

labelMap ==
    ("feat" :> "enhancement") @@ ("fix" :> "bug") @@
    ("docs" :> "documentation") @@ ("style" :> "style") @@
    ("refactor" :> "refactor") @@ ("perf" :> "performance") @@
    ("test" :> "test") @@ ("chore" :> "chore")

\* The prefix handleTitleBasedLabel looks up: the text before the first
\* colon, trimmed and lowercased, and then cut at a bracket.
titlePrefix(title) ==
    ReplaceBrackets(ToLower(TrimSpace(SplitN2First(title, ":"))))

-----------------------------------------------------------------------------
(* API calls *)

Call(op, arg, page, ok) == [op |-> op, arg |-> arg, page |-> page, ok |-> ok]

WriteOps == {"Issues.AddLabelsToIssue", "Issues.AddAssignees",
             "PullRequests.RequestReviewers"}

IsWrite(c) == c.op \in WriteOps

Writes(cs) == {i \in 1..Len(cs) : IsWrite(cs[i])}

NilPR == [Title |-> "", User |-> "", Labels |-> {}, Assignees |-> {},
          RequestedReviewers |-> {}]

\* What PullRequests.Get answers: the pull request as the host holds it.
Snapshot(g) == [Title |-> g.title, User |-> g.author, Labels |-> g.labels,
                Assignees |-> g.assignees,
                RequestedReviewers |-> g.reviewers]


\* Two calls of main in the other order.
nextRule_swapped(r) ==
    CASE r = "title"     -> "assignee"
      [] r = "assignee"  -> "day"
      [] r = "day"       -> "reviewers"
      [] r = "reviewers" -> "done"

\* main's sequence of rules (lines 52 to 55): what follows rule r.
nextRule(r) ==
    CASE r = "title"     -> "day"
      [] r = "day"       -> "assignee"
      [] r = "assignee"  -> "reviewers"
      [] r = "reviewers" -> "done"

-----------------------------------------------------------------------------
(* The rules' decisions *)

\* A lookup whose second result is ignored: an unknown prefix yields "".
titleDecision_lookupUnchecked(p) ==
    IF ~Contains(ToLower(p.Title), ":")
    THEN [fatal |-> TRUE, label |-> "", write |-> FALSE]
    ELSE LET prefix == titlePrefix(p.Title)
             label  == IF prefix \in DOMAIN labelMap
                       THEN labelMap[prefix] ELSE ""
         IN  [fatal |-> FALSE, label |-> label, write |-> label \notin p.Labels]

\* The loop over pr.Labels left out: the label is added whatever is there.
titleDecision_alwaysWrites(p) ==
    IF ~Contains(ToLower(p.Title), ":")
    THEN [fatal |-> TRUE, label |-> "", write |-> FALSE]
    ELSE LET prefix == titlePrefix(p.Title)
         IN  IF prefix \notin DOMAIN labelMap
             THEN [fatal |-> TRUE, label |-> "", write |-> FALSE]
             ELSE [fatal |-> FALSE, label |-> labelMap[prefix], write |-> TRUE]

\* handleTitleBasedLabel up to its write: log.Fatalf on a title without a
\* colon or with an unknown prefix, else the label and whether to add it.
titleDecision(p) ==
    IF ~Contains(ToLower(p.Title), ":")
    THEN [fatal |-> TRUE, label |-> "", write |-> FALSE]
    ELSE LET prefix == titlePrefix(p.Title)
         IN  IF prefix \notin DOMAIN labelMap
             THEN [fatal |-> TRUE, label |-> "", write |-> FALSE]
             ELSE [fatal |-> FALSE, label |-> labelMap[prefix],
                   write |-> labelMap[prefix] \notin p.Labels]

\* What PullRequests.ListFiles(ctx, owner, repo, prNumber, nil) answers: with
\* no ListOptions and called once, the first page of the changed files.
ListFiles(g) == IF g.files = <<>> THEN <<>> ELSE g.files[1]

\* handleDayLabel's totalChanges over the files it was given.
RECURSIVE totalChanges(_)
totalChanges(files) ==
    IF files = <<>> THEN 0
    ELSE Head(files).additions + Head(files).deletions
         + totalChanges(Tail(files))

\* handleDayLabel's dayLabel.
dayLabel(total) ==
    IF total < 200 THEN "D-3"
    ELSE IF total < 500 THEN "D-5"
    ELSE "D-7"

\* A test for the three labels the rule itself adds, not for the prefix.
hasDayLabel_ownLabels(p) == \E lab \in p.Labels : lab \in {"D-3", "D-5", "D-7"}

\* handleDayLabel's loop over pr.Labels: a D-n label is already there.
hasDayLabel(p) == \E lab \in p.Labels : HasPrefix(lab, "D-")

\* A test for the author among the assignees, not for any assignee.
hasAssignees_authorOnly(p) == p.User \in p.Assignees

\* assignDefaultAssignee's guard.
hasAssignees(p) == Cardinality(p.Assignees) # 0

\* The assignees tested where the requested reviewers are meant.
hasReviewers_assignees(p) == Cardinality(p.Assignees) # 0

\* assignDefaultReviewers' guard.
hasReviewers(p) == Cardinality(p.RequestedReviewers) # 0

\* The author is not skipped.
appendPage_keepsAuthor(contributors, page, author) == contributors \o page

\* The inner loop of assignDefaultReviewers over one page: the logins of the
\* page, the author's skipped.
RECURSIVE appendPage(_, _, _)
appendPage(contributors, page, author) ==
    IF page = <<>> THEN contributors
    ELSE appendPage(IF Head(page) = author THEN contributors
                    ELSE Append(contributors, Head(page)),
                    Tail(page), author)

\* The contributors gathered from the first n pages.
RECURSIVE collect(_, _, _)
collect(pages, n, author) ==
    IF n = 0 THEN <<>>
    ELSE appendPage(collect(pages, n - 1, author), pages[n], author)

\* The test of line 194.
noContributors(contributors, author) ==
    \/ Len(contributors) = 0
    \/ Len(contributors) = 1 /\ contributors[1] = author

\* The increasing sequence of the members of a set of indices.
RECURSIVE Ascending(_)
Ascending(S) ==
    IF S = {} THEN <<>> ELSE <<Min(S)>> \o Ascending(S \ {Min(S)})

\* The reviewers lines 199 to 207 may choose.  rand.Shuffle leaves any
\* permutation, so contributors[:10] is any 10 of them in any order; no rule
\* reads the order of a request, and the model keeps one arrangement of each
\* choice of 10 (the list's own order).
selectReviewers(contributors) ==
    IF Len(contributors) > 10
    THEN {[k \in 1..10 |-> contributors[Ascending(I)[k]]] :
             I \in {J \in SUBSET (1..Len(contributors)) : Cardinality(J) = 10}}
    ELSE {contributors}

Range(f) == {f[i] : i \in DOMAIN f}

-----------------------------------------------------------------------------
(* The operations *)

\* log.Fatal: the process ends with status 1.
Fatal ==
    /\ pc' = "fatal"
    /\ exit' = 1

\* main, lines 15 to 49: the environment is validated and the pull request
\* fetched.  The host has no repository with an empty owner or name, so such
\* a fetch is answered with an error.
main ==
    /\ pc = "start"
    /\ LET parts == Split(env.repo, "/")
       IN  IF \/ env.token = ""
              \/ env.repo = ""
              \/ Len(parts) # 2
              \/ env.prNumber = ""
              \/ ~AtoiOk(env.prNumber)
           THEN /\ Fatal
                /\ UNCHANGED <<pr, calls>>
           ELSE \E ok \in BOOLEAN :
                  /\ ok => parts[1] # "" /\ parts[2] # ""
                  /\ calls' = Append(calls,
                         Call("PullRequests.Get",
                              <<parts[1], parts[2], env.prNumber>>, 0, ok))
                  /\ IF ok
                     THEN /\ pr' = Snapshot(gh)
                          /\ pc' = "title"
                          /\ exit' = exit
                     ELSE /\ Fatal
                          /\ pr' = pr
    /\ UNCHANGED <<env, gh, entered, resolved, run, prev>>

\* handleTitleBasedLabel, lines 71 to 113.
handleTitleBasedLabel ==
    /\ pc = "title"
    /\ entered' = Append(entered, "title")
    /\ LET d == titleDecision(pr)
       IN  IF d.fatal
           THEN /\ Fatal
                /\ UNCHANGED <<gh, calls, resolved>>
           ELSE /\ resolved' = d.label
                /\ pc' = nextRule("title")
                /\ exit' = exit
                /\ IF d.write
                   THEN \E ok \in BOOLEAN :
                          /\ calls' = Append(calls,
                                 Call("Issues.AddLabelsToIssue",
                                      <<d.label>>, 0, ok))
                          /\ gh' = IF ok
                                   THEN [gh EXCEPT !.labels = @ \cup {d.label}]
                                   ELSE gh
                   ELSE UNCHANGED <<gh, calls>>
    /\ UNCHANGED <<env, pr, run, prev>>

\* handleDayLabel, lines 116 to 151.
handleDayLabel ==
    /\ pc = "day"
    /\ entered' = Append(entered, "day")
    /\ pc' = nextRule("day")
    /\ \E fetched \in BOOLEAN :
         LET list == Call("PullRequests.ListFiles", <<>>, 0, fetched)
             label == dayLabel(totalChanges(ListFiles(gh)))
         IN  IF ~fetched \/ hasDayLabel(pr)
             THEN /\ calls' = Append(calls, list)
                  /\ gh' = gh
             ELSE \E ok \in BOOLEAN :
                    /\ calls' = calls \o
                          <<list, Call("Issues.AddLabelsToIssue",
                                       <<label>>, 0, ok)>>
                    /\ gh' = IF ok
                             THEN [gh EXCEPT !.labels = @ \cup {label}]
                             ELSE gh
    /\ UNCHANGED <<env, pr, resolved, exit, run, prev>>

\* assignDefaultAssignee, lines 154 to 166.
assignDefaultAssignee ==
    /\ pc = "assignee"
    /\ entered' = Append(entered, "assignee")
    /\ pc' = nextRule("assignee")
    /\ IF hasAssignees(pr)
       THEN UNCHANGED <<gh, calls>>
       ELSE \E ok \in BOOLEAN :
              /\ calls' = Append(calls,
                     Call("Issues.AddAssignees", <<pr.User>>, 0, ok))
              /\ gh' = IF ok
                       THEN [gh EXCEPT !.assignees = @ \cup {pr.User}]
                       ELSE gh
    /\ UNCHANGED <<env, pr, resolved, exit, run, prev>>

\* assignDefaultReviewers, lines 169 to 218, and main's return.  failAt is the
\* page whose listing fails (0: none does); the pages before it were listed.
assignDefaultReviewers ==
    /\ pc = "reviewers"
    /\ entered' = Append(entered, "reviewers")
    /\ pc' = nextRule("reviewers")
    /\ exit' = 0
    /\ IF hasReviewers(pr)
       THEN UNCHANGED <<gh, calls>>
       ELSE \E failAt \in 0..Len(gh.contributors) :
              LET last == IF failAt = 0 THEN Len(gh.contributors) ELSE failAt
                  listed == [k \in 1..last |->
                               Call("Repositories.ListContributors",
                                    <<>>, k, k # failAt)]
                  contributors ==
                      collect(gh.contributors,
                              IF failAt = 0 THEN last ELSE last - 1, pr.User)
              IN  IF noContributors(contributors, pr.User)
                  THEN /\ calls' = calls \o listed
                       /\ gh' = gh
                  ELSE \E reviewers \in selectReviewers(contributors),
                          ok \in BOOLEAN :
                         /\ calls' = calls \o listed \o
                               <<Call("PullRequests.RequestReviewers",
                                      reviewers, 0, ok)>>
                         /\ gh' = IF ok
                                  THEN [gh EXCEPT
                                          !.reviewers = @ \cup Range(reviewers)]
                                  ELSE gh
    /\ UNCHANGED <<env, pr, resolved, run, prev>>

\* The workflow's trigger fires again (on: pull_request): a new invocation
\* against the pull request as the host now holds it.
Rerun ==
    /\ pc \in {"done", "fatal"}
    /\ run < MaxRuns
    /\ run' = run + 1
    /\ prev' = [calls |-> calls, exit |-> exit]
    /\ pc' = "start"
    /\ pr' = NilPR
    /\ calls' = <<>>
    /\ entered' = <<>>
    /\ resolved' = ""
    /\ exit' = -1
    /\ UNCHANGED <<env, gh>>

Next ==
    \/ main
    \/ handleTitleBasedLabel
    \/ handleDayLabel
    \/ assignDefaultAssignee
    \/ assignDefaultReviewers
    \/ Rerun

\* One invocation alone.
NextOnce ==
    \/ main
    \/ handleTitleBasedLabel
    \/ handleDayLabel
    \/ assignDefaultAssignee
    \/ assignDefaultReviewers

-----------------------------------------------------------------------------
(* Inputs *)

EnvOK == [token |-> "t0k", repo |-> "o/r", prNumber |-> "7"]

Tokens    == {"", "t0k"}
Repos     == {"", "o/r", "o/", "/r", "/", "or", "o/r/x"}
PRNumbers == {"", "7", "x7", "-7"}

Envs == [token : Tokens, repo : Repos, prNumber : PRNumbers]

\* Titles "p(s): r" and "p: r".
Scoped(p, s, r) == p \o "(" \o s \o "): " \o r
Plain(p, r)     == p \o ": " \o r

TitlePrefixes == {"feat", "FEAT", "Fix", " docs", "feat ", "chore\t", "wip",
                  "", "perf[x]"}
TitleScopes   == {"", "api", "a:b", "x(y)", "a b"}
TitleRests    == {"x", "a: b (c)"}

Titles ==
    {Scoped(p, s, r) : p \in TitlePrefixes, s \in TitleScopes, r \in TitleRests}
    \cup {Plain(p, r) : p \in TitlePrefixes, r \in TitleRests}
    \cup {"no colon here", "feat", "feat(api) x", "feat(a\nb): x",
          "fix<a\nb>[c]: x"}

LabelSets == {{}, {"enhancement"}, {"D-5"}, {"bug", "D-3"}, {"D-"},
              {"d-3", "xD-3", "D"}, {"documentation", "D-9"}}

File(a, d) == [additions |-> a, deletions |-> d]

\* Pages of changed files, with totals 199, 200, 499, 500, 10000 and 15.
FilePages == {<<File(199, 0)>>, <<File(100, 100)>>, <<File(250, 249)>>,
              <<File(250, 250)>>, <<File(5000, 5000)>>,
              <<File(0, 0), File(10, 5)>>}

RECURSIVE SeqsUpTo(_, _)
SeqsUpTo(S, n) ==
    IF n = 0 THEN {<<>>}
    ELSE LET shorter == SeqsUpTo(S, n - 1)
         IN  shorter \cup {Append(q, x) : q \in shorter, x \in S}

FileLists == SeqsUpTo(FilePages, MaxFilePages)

Logins == <<"ann", "bob", "cy", "dee", "eve", "fay", "gus", "hal", "ida",
            "jon", "kim", "lee", "mo", "ned", "ole", "pam">>

\* The contributors' pages: the first n logins, on one page or on two.
ContributorPages(n) ==
    {<<SubSeq(Logins, 1, n)>>,
     <<SubSeq(Logins, 1, n \div 2), SubSeq(Logins, n \div 2 + 1, n)>>}

\* The author is the first contributor, the third, or none of them.
Authors == {"ann", "cy", "zed"}

InitWith(E, T, L, A, R, F, U, N) ==
    /\ env \in E
    /\ gh \in {[title |-> t, author |-> u, labels |-> l, assignees |-> a,
                reviewers |-> r, files |-> f, contributors |-> c] :
                 t \in T, u \in U, l \in L, a \in A, r \in R, f \in F,
                 c \in UNION {ContributorPages(n) : n \in N}}
    /\ pr = NilPR
    /\ pc = "start"
    /\ calls = <<>>
    /\ entered = <<>>
    /\ resolved = ""
    /\ exit = -1
    /\ run = 1
    /\ prev = [calls |-> <<>>, exit |-> -1]

\* Every rule at work on a pull request.
Init ==
    InitWith({EnvOK}, {"feat: x", "FIX(api): y", "none"},
             {{}, {"enhancement"}, {"bug", "D-3"}},
             {{}, {"mallory"}}, {{}, {"bob"}},
             {<<>>, <<<<File(100, 100)>>, <<File(250, 250)>>>>},
             {"ann", "zed"}, {0, 3})

\* The environment varies.
InitEnv ==
    InitWith(Envs, {"feat: x", "none"}, {{}}, {{}}, {{"bob"}},
             {<<<<File(199, 0)>>>>}, {"ann"}, {1})

\* The title varies.
InitTitle ==
    InitWith({EnvOK}, Titles, {{}, {"enhancement"}, {"bug", "D-3"}},
             {{}}, {{"bob"}}, {<<<<File(199, 0)>>>>}, {"ann"}, {1})

\* The changed files and the labels vary.
InitSize ==
    InitWith({EnvOK}, {"feat: x"}, LabelSets, {{}}, {{"bob"}}, FileLists,
             {"ann"}, {1})

\* The contributors, the author and the reviewers vary.
InitReview ==
    InitWith({EnvOK}, {"fix: y"}, {{"bug", "D-3"}}, {{}, {"mallory"}},
             {{}, {"bob"}}, {<<>>}, Authors, 0..MaxContributors)

Spec       == Init /\ [][Next]_vars
SpecEnv    == InitEnv /\ [][Next]_vars
SpecTitle  == InitTitle /\ [][Next]_vars
SpecSize   == InitSize /\ [][NextOnce]_vars
SpecReview == InitReview /\ [][NextOnce]_vars

-----------------------------------------------------------------------------
(* What the properties speak of *)

CallsOf(op) == {i \in 1..Len(calls) : calls[i].op = op}

\* This invocation has fetched the pull request.
Fetched == \E i \in CallsOf("PullRequests.Get") : calls[i].ok

Entered(rule) == rule \in Range(entered)

RuleOrder == <<"title", "day", "assignee", "reviewers">>

\* The title has a colon and its cleaned prefix is in the label map.
Classifies(title) ==
    /\ Contains(title, ":")
    /\ titlePrefix(title) \in DOMAIN labelMap

\* The add-label calls of handleDayLabel: those after the file listing.
DayAdds ==
    {i \in CallsOf("Issues.AddLabelsToIssue") :
        \E j \in CallsOf("PullRequests.ListFiles") : j < i}

RECURSIVE Flatten(_)
Flatten(pages) ==
    IF pages = <<>> THEN <<>> ELSE Head(pages) \o Flatten(Tail(pages))

\* The sum of additions and deletions over every changed file of the PR.
AllChanges == totalChanges(Flatten(gh.files))

SizeBucket(total) ==
    CASE total < 200                  -> "D-3"
      [] 200 <= total /\ total < 500  -> "D-5"
      [] total >= 500                 -> "D-7"

\* The repository's contributors other than the author.
Pool == Range(Flatten(gh.contributors)) \ {gh.author}

Distinct(q) == \A i, j \in 1..Len(q) : i # j => q[i] # q[j]

-----------------------------------------------------------------------------
(* C1 *)

\* C1: a fetched pull request whose title has no colon, or whose cleaned
\* prefix is not in the label map, makes the invocation end with status 1
\* inside handleTitleBasedLabel, and the invocation issues no write call.
C1_BadTitleAborts ==
    (Fetched /\ ~Classifies(pr.Title)) =>
        /\ Writes(calls) = {}
        /\ pc \in {"title", "fatal"}
        /\ pc = "fatal" => entered = <<"title">> /\ exit = 1
        /\ pc = "title" => entered = <<>>

\* A scoped title with an unknown prefix has aborted the invocation.
C1_Witness ==
    /\ Fetched
    /\ pr.Title = Scoped("wip", "api", "x")
    /\ pc = "fatal"
    /\ entered = <<"title">>

-----------------------------------------------------------------------------
(* C2 *)

\* C2: with no D- label on the PR and the file listing answered,
\* handleDayLabel issues exactly one add-label call, and its label is the
\* bucket of the changes summed over all the changed files of the PR.
C2_SizeOverAllFiles ==
    (/\ Entered("day")
     /\ \A lab \in pr.Labels : ~HasPrefix(lab, "D-")
     /\ \E j \in CallsOf("PullRequests.ListFiles") : calls[j].ok) =>
        /\ Cardinality(DayAdds) = 1
        /\ \A i \in DayAdds : calls[i].arg = <<SizeBucket(AllChanges)>>

-----------------------------------------------------------------------------
(* C3 *)

\* C3: with no requested reviewer and every contributor listing answered,
\* assignDefaultReviewers issues no reviewer request for an empty pool and
\* one otherwise; its logins are pairwise distinct, are contributors, are
\* not the author, and are 10 of a pool of more than 10 and the whole pool
\* otherwise.
C3_ReviewerRequest ==
    (/\ Entered("reviewers")
     /\ pr.RequestedReviewers = {}
     /\ \A j \in CallsOf("Repositories.ListContributors") : calls[j].ok) =>
        LET requests == CallsOf("PullRequests.RequestReviewers")
        IN  /\ Cardinality(requests) = (IF Pool = {} THEN 0 ELSE 1)
            /\ \A i \in requests :
                 LET reviewers == calls[i].arg
                 IN  /\ Distinct(reviewers)
                     /\ gh.author \notin Range(reviewers)
                     /\ Range(reviewers) \subseteq Pool
                     /\ IF Cardinality(Pool) > 10
                        THEN Len(reviewers) = 10
                        ELSE Range(reviewers) = Pool

\* 10 reviewers have been requested out of a pool of more than 10 that the
\* author's login was taken out of.
C3_Witness ==
    /\ pc = "done"
    /\ Cardinality(Pool) > 10
    /\ gh.author \in Range(Flatten(gh.contributors))
    /\ \E i \in CallsOf("PullRequests.RequestReviewers") :
         Len(calls[i].arg) = 10 /\ calls[i].ok

-----------------------------------------------------------------------------
(* C4 *)

\* C4: once the pull request is fetched and its title classifies, whatever
\* calls fail, the invocation never aborts, enters the four rules in the
\* order title, day, assignee, reviewers, one at a time until it is done,
\* issues no call twice, and ends with status 0.
C4_AllRulesRun ==
    (Fetched /\ Classifies(pr.Title)) =>
        /\ pc \in Range(RuleOrder) \cup {"done"}
        /\ pc = "done" => entered = RuleOrder /\ exit = 0
        /\ \A k \in 1..Len(RuleOrder) :
             pc = RuleOrder[k] => entered = SubSeq(RuleOrder, 1, k - 1)
        /\ Distinct([i \in 1..Len(calls) |->
                       <<calls[i].op, calls[i].arg, calls[i].page>>])

\* An invocation is done although every call after the fetch failed.
C4_Witness ==
    /\ pc = "done"
    /\ exit = 0
    /\ Len(calls) >= 5
    /\ \A i \in 2..Len(calls) : ~calls[i].ok

-----------------------------------------------------------------------------
(* C5 *)

\* What handleTitleBasedLabel makes of a title: the label, or an abort.
TitleOutcome(title) ==
    LET d == titleDecision([NilPR EXCEPT !.Title = title])
    IN  IF d.fatal THEN "abort" ELSE d.label

\* C5: on a title "p(s): r" handleTitleBasedLabel resolves the label it
\* resolves on "p: r", or aborts as it does there.
C5_ScopeIgnored ==
    \A p \in TitlePrefixes, s \in TitleScopes, r \in TitleRests :
        (Fetched /\ Entered("title") /\ pr.Title = Scoped(p, s, r)) =>
            (IF pc = "fatal" THEN "abort" ELSE resolved)
                = TitleOutcome(Plain(p, r))

-----------------------------------------------------------------------------
(* C6 *)

\* The previous invocation ended with status 0 and each of its writes
\* succeeded.
PrevWritesOk ==
    /\ prev.exit = 0
    /\ \A i \in Writes(prev.calls) : prev.calls[i].ok

\* The previous invocation ended with status 0 and each of its calls, the
\* listings too, succeeded.
PrevCallsOk ==
    /\ prev.exit = 0
    /\ \A i \in 1..Len(prev.calls) : prev.calls[i].ok

-----------------------------------------------------------------------------
(* C7 *)

\* C7: a fetched pull request with a label that starts with D- gets no
\* add-label call from handleDayLabel, whatever the size of its changes.
C7_DayLabelKept ==
    (Fetched /\ \E lab \in pr.Labels : HasPrefix(lab, "D-")) => DayAdds = {}

\* handleDayLabel has listed files of 500 changes or more and added nothing
\* to a PR labelled D-9.
C7_Witness ==
    /\ Entered("day")
    /\ "D-9" \in pr.Labels
    /\ \E j \in CallsOf("PullRequests.ListFiles") : calls[j].ok
    /\ totalChanges(ListFiles(gh)) >= 500
    /\ DayAdds = {}

-----------------------------------------------------------------------------
(* C8 *)

\* C8: a fetched pull request with a requested reviewer gets neither a
\* reviewer request nor a contributor listing.
C8_ReviewersKept ==
    (Fetched /\ pr.RequestedReviewers # {}) =>
        /\ CallsOf("PullRequests.RequestReviewers") = {}
        /\ CallsOf("Repositories.ListContributors") = {}

\* assignDefaultReviewers has run on a PR with a requested reviewer, no
\* assignee and contributors to choose from.
C8_Witness ==
    /\ pc = "done"
    /\ pr.RequestedReviewers = {"bob"}
    /\ pr.Assignees = {}
    /\ Cardinality(Pool) > 10

-----------------------------------------------------------------------------
(* C9 *)

\* C9: assignDefaultAssignee issues one add-assignee call, for the author
\* alone, when the fetched PR has no assignee, and no call when it has one;
\* no add-assignee call is issued before the rule is entered.
C9_AssigneeIffNone ==
    LET adds == CallsOf("Issues.AddAssignees")
    IN  IF Entered("assignee") /\ pr.Assignees = {}
        THEN /\ Cardinality(adds) = 1
             /\ \A i \in adds : calls[i].arg = <<gh.author>>
        ELSE adds = {}

\* The author has been assigned to a PR without assignees.
C9_Witness ==
    /\ pr.Assignees = {}
    /\ \E i \in CallsOf("Issues.AddAssignees") :
         calls[i].arg = <<"zed">> /\ calls[i].ok
    /\ gh.assignees = {"zed"}

-----------------------------------------------------------------------------
(* C10 *)

\* GITHUB_REPOSITORY splits on "/" into exactly two parts, neither empty.
RepoWellFormed(repo) ==
    LET parts == Split(repo, "/")
    IN  Len(parts) = 2 /\ parts[1] # "" /\ parts[2] # ""

\* C10: with a repository identifier that is absent or not two non-empty
\* parts, no pull request fetch is issued and no rule is entered, and main
\* ends with status 1.
C10_RepoValidated ==
    ~RepoWellFormed(env.repo) =>
        /\ CallsOf("PullRequests.Get") = {}
        /\ entered = <<>>
        /\ pc \in {"start", "fatal"}
        /\ pc = "fatal" => exit = 1

=============================================================================
